---- MODULE Spec2Model ----
(***************************************************************************)
(* Model of ClobClient (src/src/lib.rs): the credential / key lifecycle    *)
(* of the client and the request operations it issues.                    *)
(*                                                                         *)
(* The client's fields are the variables host, signer, chain_id and        *)
(* api_creds.  Every async request operation is a call held in calls[t]:   *)
(* an async fn runs synchronously up to its first pending await, so the    *)
(* Call_* actions run the precondition checks, build the headers and hand  *)
(* the request to the transport in one step; Respond resumes the call with *)
(* the transport's outcome; Return gives the result to the caller.         *)
(***************************************************************************)
EXTENDS Integers, Sequences, FiniteSets, Bags, TLC

VARIABLES host, signer, chain_id, api_creds, calls, last

vars == <<host, signer, chain_id, api_creds, calls, last>>

(* Option<T> *)
None == [tag |-> "None"]
Some(x) == [tag |-> "Some", val |-> x]

(* Result<T, E> *)
Ok(x) == [tag |-> "Ok", val |-> x]
Err(e) == [tag |-> "Err", val |-> e]
is_err(r) == r.tag = "Err"

---------------------------------------------------------------------------
(* Bounds and input sets *)

MaxInFlight == 2

Hosts == {"https://clob"}
ValidKeys == {"k1"}
Keys == ValidKeys \cup {"bad"}
Chains == {137, 1}
KnownChains == {137, 80002}
Nonces == {None, Some(5)}

CredGood == [api_key |-> "k", secret |-> "c2VjcmV0", passphrase |-> "p"]
CredBad == [api_key |-> "kb", secret |-> "%%", passphrase |-> "p"]
CredSrv == [api_key |-> "srv", secret |-> "c3J2", passphrase |-> "q"]
CallerCreds == {CredGood, CredBad}
ServerCreds == {CredSrv}
Base64Secrets == {"c2VjcmV0", "c3J2"}

---------------------------------------------------------------------------
(* Constructors *)

(* key.parse::<PrivateKeySigner>() *)
ParseKey(key) == IF key \in ValidKeys THEN Ok(key) ELSE Err("Invalid private key")

ClobClient(h, s, c, a) == [host |-> h, signer |-> s, chain_id |-> c, api_creds |-> a]

new(h) == Ok(ClobClient(h, None, None, None))

with_l1_headers(h, key, chain) ==
    IF is_err(ParseKey(key))
    THEN Err("Invalid private key")
    ELSE Ok(ClobClient(h, Some(ParseKey(key).val), Some(chain), None))

with_l2_headers_no_creds(h, key, chain, creds) == with_l1_headers(h, key, chain)

with_l2_headers(h, key, chain, creds) ==
    IF is_err(ParseKey(key))
    THEN Err("Invalid private key")
    ELSE Ok(ClobClient(h, Some(ParseKey(key).val), Some(chain), Some(creds)))

---------------------------------------------------------------------------
(* Parameter checks and derived views *)

get_l1_parameters(s, c) ==
    IF s = None THEN Err("Signer is not set")
    ELSE IF c = None THEN Err("Chain id is not set")
    ELSE Ok(<<s.val, c.val>>)

get_l2_parameters_default_creds(s, a) ==
    IF s = None THEN Err("Signer is not set")
    ELSE IF a = None THEN Ok(<<s.val, [api_key |-> "", secret |-> "", passphrase |-> ""]>>)
    ELSE Ok(<<s.val, a.val>>)

get_l2_parameters(s, a) ==
    IF s = None THEN Err("Signer is not set")
    ELSE IF a = None THEN Err("API credentials not set.")
    ELSE Ok(<<s.val, a.val>>)

(* EthSigner::address, hex-encoded with the 0x prefix *)
address(k) == "0x" \o k

get_contract_config(chain) ==
    IF chain \in KnownChains
    THEN Some([collateral |-> <<"collateral", chain>>,
               conditional_tokens |-> <<"conditional", chain>>,
               exchange |-> <<"exchange", chain>>])
    ELSE None

get_address(s) == IF s = None THEN None ELSE Some(address(s.val))

get_collateral_address(c) ==
    IF c = None THEN None
    ELSE IF get_contract_config(c.val) = None THEN None
    ELSE Some(get_contract_config(c.val).val.collateral)

get_conditional_address(c) ==
    IF c = None THEN None
    ELSE IF get_contract_config(c.val) = None THEN None
    ELSE Some(get_contract_config(c.val).val.conditional_tokens)

get_exchange_address_default_chain(c) ==
    IF get_contract_config(IF c = None THEN 137 ELSE c.val) = None THEN None
    ELSE Some(get_contract_config(IF c = None THEN 137 ELSE c.val).val.exchange)

get_exchange_address(c) ==
    IF c = None THEN None
    ELSE IF get_contract_config(c.val) = None THEN None
    ELSE Some(get_contract_config(c.val).val.exchange)

---------------------------------------------------------------------------
(* Header builders and request construction *)

(* headers::create_l1_headers: the wallet signature may fail (signOk) *)
create_l1_headers(k, nonce, signOk) ==
    IF ~signOk THEN Err("headers")
    ELSE Ok([kind |-> "L1", address |-> address(k),
             nonce |-> IF nonce = None THEN 0 ELSE nonce.val])

(* headers::create_l2_headers: fails when the secret is not base64 *)
create_l2_headers(k, creds, method, endpoint) ==
    IF creds.secret \notin Base64Secrets THEN Err("headers")
    ELSE Ok([kind |-> "L2", api_key |-> creds.api_key,
             passphrase |-> creds.passphrase,
             signature |-> <<creds.secret, method, endpoint>>])

create_request_with_headers(method, endpoint, headers) ==
    [method |-> method, url |-> host \o endpoint, headers |-> Some(headers)]

(* http_client.get(..) / .post(..) of the unauthenticated operations *)
PublicOps == {"get_ok", "get_server_time", "get_midpoint", "get_midpoints",
              "get_price", "get_prices"}

public_request(op) ==
    [method |-> IF op \in {"get_midpoints", "get_prices"} THEN "POST" ELSE "GET",
     url |-> host \o (CASE op = "get_ok" -> "/"
                        [] op = "get_server_time" -> "/time"
                        [] op = "get_midpoint" -> "/midpoint"
                        [] op = "get_midpoints" -> "/midpoints"
                        [] op = "get_price" -> "/price"
                        [] op = "get_prices" -> "/prices"),
     headers |-> None]

---------------------------------------------------------------------------
(* One poll of an async fn: it panics, suspends on a request it has sent, *)
(* or returns.  built counts the header-builder invocations of the poll.  *)

Panic(msg) == [k |-> "panic", msg |-> msg, built |-> 0]
Pending(req) == [k |-> "pending", req |-> req, built |-> IF req.headers = None THEN 0 ELSE 1]
Ready(res, b) == [k |-> "ready", res |-> res, built |-> b]

l1_request_no_panic(method, endpoint, nonce, signOk) ==
    LET p == get_l1_parameters(signer, chain_id) IN
    IF is_err(p) THEN Ready(p, 0)
    ELSE LET headers == create_l1_headers(p.val[1], nonce, signOk) IN
         IF is_err(headers) THEN Ready(headers, 1)
         ELSE Pending(create_request_with_headers(method, endpoint, headers.val))

l1_request(method, endpoint, nonce, signOk) ==
    LET p == get_l1_parameters(signer, chain_id) IN
    IF is_err(p) THEN Panic(p.val)
    ELSE LET headers == create_l1_headers(p.val[1], nonce, signOk) IN
         IF is_err(headers) THEN Ready(headers, 1)
         ELSE Pending(create_request_with_headers(method, endpoint, headers.val))

create_api_key(nonce, signOk) == l1_request("POST", "/auth/api-key", nonce, signOk)

derive_api_key(nonce, signOk) == l1_request("GET", "/auth/derive-api-key", nonce, signOk)

l2_request(method, endpoint) ==
    LET p == get_l2_parameters(signer, api_creds) IN
    IF is_err(p) THEN Panic(p.val)
    ELSE LET headers == create_l2_headers(p.val[1], p.val[2], method, endpoint) IN
         IF is_err(headers) THEN Ready(headers, 1)
         ELSE Pending(create_request_with_headers(method, endpoint, headers.val))

get_api_keys == l2_request("GET", "/auth/api-keys")

delete_api_key == l2_request("DELETE", "/auth/api-key")

---------------------------------------------------------------------------
(* Calls *)

NewCall(op, phase, nonce) ==
    [op |-> op, pc |-> "start", phase |-> phase, nonce |-> nonce,
     sent |-> <<>>, built |-> 0, creds |-> None, derived |-> None,
     result |-> None, panic |-> None]

(* the innermost async fn of call c has returned res: creds is what       *)
(* create_api_key returned, derived what derive_api_key returned           *)
Returned(c, res) ==
    CASE c.phase = "create" -> [c EXCEPT !.creds = Some(res)]
      [] c.phase = "derive" -> [c EXCEPT !.derived = Some(res)]
      [] OTHER -> c

(* the call whose outermost async fn returns res *)
Done(c, res) == [c EXCEPT !.pc = "done", !.result = Some(res)]

(* the call after a poll of its innermost async fn, the outermost one      *)
(* returning what the innermost returns                                    *)
Polled(c, poll) ==
    CASE poll.k = "panic" -> [c EXCEPT !.pc = "panicked", !.panic = Some(poll.msg)]
      [] poll.k = "pending" -> [c EXCEPT !.pc = "await",
                                          !.sent = Append(@, poll.req),
                                          !.built = @ + poll.built]
      [] poll.k = "ready" -> Done(Returned([c EXCEPT !.built = @ + poll.built], poll.res),
                                  poll.res)

(* create_or_derive_api_key once create_api_key has returned creds *)
create_or_derive_api_key_no_fallback(c, creds, signOk) == Done(c, creds)

create_or_derive_api_key_always_derive(c, creds, signOk) ==
    Polled([c EXCEPT !.phase = "derive"], derive_api_key(c.nonce, signOk))

create_or_derive_api_key(c, creds, signOk) ==
    IF is_err(creds)
    THEN Polled([c EXCEPT !.phase = "derive"], derive_api_key(c.nonce, signOk))
    ELSE Done(c, creds)

(* what the transport and the body decoding of op can produce *)
Outcomes(op) ==
    CASE op = "get_ok" -> {Ok("response"), Err("send")}
      [] op = "get_server_time" -> {Ok("time"), Err("send"), Err("body")}
      [] op \in {"create_api_key", "derive_api_key", "create_or_derive_api_key"} ->
            {Ok(c) : c \in ServerCreds} \cup {Err("send"), Err("body")}
      [] op = "get_api_keys" -> {Ok("apiKeys"), Err("send"), Err("body")}
      [] op = "delete_api_key" -> {Ok("text"), Err("send"), Err("body")}
      [] OTHER -> {Ok("json"), Err("send"), Err("body")}

---------------------------------------------------------------------------
(* Initial states: the result of one constructor call.  A constructor     *)
(* that panics on the key yields no client (last.ok = FALSE).             *)

Args(h, key, chain, creds) == [host |-> h, key |-> key, chain |-> chain, creds |-> creds]

Constructed(op, args, r) ==
    /\ host = (IF is_err(r) THEN args.host.val ELSE r.val.host)
    /\ signer = (IF is_err(r) THEN None ELSE r.val.signer)
    /\ chain_id = (IF is_err(r) THEN None ELSE r.val.chain_id)
    /\ api_creds = (IF is_err(r) THEN None ELSE r.val.api_creds)
    /\ calls = EmptyBag
    /\ last = [op |-> op, args |-> args, ok |-> ~is_err(r)]

Init ==
    \/ \E h \in Hosts : Constructed("new", Args(Some(h), None, None, None), new(h))
    \/ \E h \in Hosts, key \in Keys, chain \in Chains :
          Constructed("with_l1_headers", Args(Some(h), Some(key), Some(chain), None),
                      with_l1_headers(h, key, chain))
    \/ \E h \in Hosts, key \in Keys, chain \in Chains, creds \in CallerCreds :
          Constructed("with_l2_headers", Args(Some(h), Some(key), Some(chain), Some(creds)),
                      with_l2_headers(h, key, chain, creds))

(* a client exists *)
alive == last.ok

InFlight == BagToSet(calls)

(* a caller may start one more call *)
CanCall == alive /\ BagCardinality(calls) < MaxInFlight

Started(c) == calls' = calls (+) SetToBag({c})

Resumed(c, d) == calls' = (calls (-) SetToBag({c})) (+) SetToBag({d})

---------------------------------------------------------------------------
(* Operations *)

set_api_creds_reset(creds) ==
    /\ alive
    /\ \A c \in InFlight : c.pc # "await"
    /\ api_creds' = Some(creds)
    /\ signer' = None
    /\ chain_id' = None
    /\ last' = [op |-> "set_api_creds", args |-> Args(None, None, None, Some(creds)),
                ok |-> TRUE]
    /\ UNCHANGED <<host, calls>>

(* &mut self: exclusive, so no call of this client is suspended meanwhile *)
set_api_creds(creds) ==
    /\ alive
    /\ \A c \in InFlight : c.pc # "await"
    /\ api_creds' = Some(creds)
    /\ last' = [op |-> "set_api_creds", args |-> Args(None, None, None, Some(creds)),
                ok |-> TRUE]
    /\ UNCHANGED <<host, signer, chain_id, calls>>

Call_public(op) ==
    /\ CanCall
    /\ Started(Polled(NewCall(op, "-", None), Pending(public_request(op))))
    /\ UNCHANGED <<host, signer, chain_id, api_creds, last>>

Call_create_api_key(nonce, signOk) ==
    /\ CanCall
    /\ Started(Polled(NewCall("create_api_key", "create", nonce),
                      create_api_key(nonce, signOk)))
    /\ UNCHANGED <<host, signer, chain_id, api_creds, last>>

Call_derive_api_key(nonce, signOk) ==
    /\ CanCall
    /\ Started(Polled(NewCall("derive_api_key", "derive", nonce),
                      derive_api_key(nonce, signOk)))
    /\ UNCHANGED <<host, signer, chain_id, api_creds, last>>

(* the first poll: create_api_key runs to its send, or returns the header *)
(* error, in which case the fallback runs in the same poll                 *)
Call_create_or_derive_api_key(nonce, signOk1, signOk2) ==
    /\ CanCall
    /\ LET c == NewCall("create_or_derive_api_key", "create", nonce)
           poll == create_api_key(nonce, signOk1)
       IN Started(IF poll.k = "ready"
                  THEN create_or_derive_api_key(
                           Returned([c EXCEPT !.built = @ + poll.built], poll.res),
                           poll.res, signOk2)
                  ELSE Polled(c, poll))
    /\ UNCHANGED <<host, signer, chain_id, api_creds, last>>

Call_get_api_keys ==
    /\ CanCall
    /\ Started(Polled(NewCall("get_api_keys", "-", None), get_api_keys))
    /\ UNCHANGED <<host, signer, chain_id, api_creds, last>>

Call_delete_api_key ==
    /\ CanCall
    /\ Started(Polled(NewCall("delete_api_key", "-", None), delete_api_key))
    /\ UNCHANGED <<host, signer, chain_id, api_creds, last>>

Respond_store(c, outcome, signOk) ==
    /\ c \in InFlight
    /\ c.pc = "await"
    /\ outcome \in Outcomes(c.op)
    /\ Resumed(c, IF c.op = "create_or_derive_api_key" /\ c.phase = "create"
                  THEN create_or_derive_api_key(Returned(c, outcome), outcome, signOk)
                  ELSE IF c.op = "get_ok"
                  THEN Done(c, Ok(~is_err(outcome)))
                  ELSE Done(Returned(c, outcome), outcome))
    /\ api_creds' = (IF c.phase \in {"create", "derive"} /\ ~is_err(outcome)
                     THEN Some(outcome.val) ELSE api_creds)
    /\ UNCHANGED <<host, signer, chain_id, last>>

(* the suspended call c resumes with the outcome of send and body decoding *)
Respond(c, outcome, signOk) ==
    /\ c \in InFlight
    /\ c.pc = "await"
    /\ outcome \in Outcomes(c.op)
    /\ Resumed(c, IF c.op = "create_or_derive_api_key" /\ c.phase = "create"
                  THEN create_or_derive_api_key(Returned(c, outcome), outcome, signOk)
                  ELSE IF c.op = "get_ok"
                  THEN Done(c, Ok(~is_err(outcome)))
                  ELSE Done(Returned(c, outcome), outcome))
    /\ UNCHANGED <<host, signer, chain_id, api_creds, last>>

(* the caller takes the result (or the panic unwinds) and the call is over *)
Return(c) ==
    /\ c \in InFlight
    /\ c.pc \in {"done", "panicked"}
    /\ calls' = calls (-) SetToBag({c})
    /\ UNCHANGED <<host, signer, chain_id, api_creds, last>>

Next ==
    \/ \E creds \in CallerCreds : set_api_creds(creds)
    \/ \E op \in PublicOps : Call_public(op)
    \/ \E nonce \in Nonces, signOk \in BOOLEAN : Call_create_api_key(nonce, signOk)
    \/ \E nonce \in Nonces, signOk \in BOOLEAN : Call_derive_api_key(nonce, signOk)
    \/ \E nonce \in Nonces, signOk1 \in BOOLEAN, signOk2 \in BOOLEAN :
          Call_create_or_derive_api_key(nonce, signOk1, signOk2)
    \/ Call_get_api_keys
    \/ Call_delete_api_key
    \/ \E c \in InFlight, signOk \in BOOLEAN :
          \E outcome \in Outcomes(c.op) : Respond(c, outcome, signOk)
    \/ \E c \in InFlight : Return(c)

Spec == Init /\ [][Next]_vars

---------------------------------------------------------------------------
(* Authentication states of the client *)

Unauthenticated == signer = None /\ chain_id = None /\ api_creds = None

WalletOnly == signer # None /\ chain_id # None /\ api_creds = None

FullyAuthenticated == signer # None /\ chain_id # None /\ api_creds # None

L1Ops == {"create_api_key", "derive_api_key", "create_or_derive_api_key"}

L2Ops == {"get_api_keys", "delete_api_key"}

IsCreateRequest(r) == r.method = "POST" /\ r.url = host \o "/auth/api-key"

IsDeriveRequest(r) == r.method = "GET" /\ r.url = host \o "/auth/derive-api-key"

NonceValue(n) == IF n = None THEN 0 ELSE n.val

---------------------------------------------------------------------------
(* C1: a client is always in exactly one of the three authentication      *)
(* states Unauthenticated, WalletOnly, FullyAuthenticated; a client with a *)
(* credential and no signer is never reached.                             *)
C1_ThreeStates == alive => (Unauthenticated \/ WalletOnly \/ FullyAuthenticated)

(* C2: new yields Unauthenticated, with_l1_headers with a valid key yields *)
(* WalletOnly, with_l2_headers with a valid key yields FullyAuthenticated  *)
(* (each holding exactly its arguments, until set_api_creds is called),    *)
(* and set_api_creds(creds) on a WalletOnly client yields                  *)
(* FullyAuthenticated holding exactly creds.                               *)
C2_Constructed ==
    /\ last.op = "new" => alive /\ Unauthenticated /\ host = last.args.host.val
    /\ last.op = "with_l1_headers" /\ last.args.key.val \in ValidKeys =>
          /\ alive /\ WalletOnly
          /\ host = last.args.host.val
          /\ signer = last.args.key
          /\ chain_id = last.args.chain
    /\ last.op = "with_l2_headers" /\ last.args.key.val \in ValidKeys =>
          /\ alive /\ FullyAuthenticated
          /\ host = last.args.host.val
          /\ signer = last.args.key
          /\ chain_id = last.args.chain
          /\ api_creds = last.args.creds

C2_SetCredsStep ==
    (WalletOnly /\ last'.op = "set_api_creds" /\ (last' # last \/ api_creds' # api_creds)) =>
        FullyAuthenticated' /\ api_creds' = last'.args.creds

C2_Lifecycle == C2_Constructed /\ [][C2_Constructed' /\ C2_SetCredsStep]_vars

C2_Witness ==
    /\ last.op = "set_api_creds"
    /\ FullyAuthenticated
    /\ api_creds = Some(CredGood)

(* C3: an L2 operation on a client that is not FullyAuthenticated panics   *)
(* before any header is built and before any request is sent, and returns  *)
(* no result.                                                              *)
C3_L2Precondition ==
    \A c \in InFlight :
        (c.op \in L2Ops /\ ~FullyAuthenticated) =>
            /\ c.pc = "panicked"
            /\ c.built = 0
            /\ c.sent = <<>>
            /\ c.result = None

C3_Witness ==
    /\ WalletOnly
    /\ chain_id = Some(137)
    /\ \E c \in InFlight : c.op = "get_api_keys" /\ c.pc = "panicked"

(* C4: an L1 operation on an Unauthenticated client panics before any      *)
(* request is sent (create_or_derive_api_key sends no derive request       *)
(* either); on a client that is at least WalletOnly the L1 parameter check *)
(* passes and no L1 operation panics.                                      *)
C4_L1Precondition ==
    /\ \A c \in InFlight :
          (c.op \in L1Ops /\ Unauthenticated) =>
              /\ c.pc = "panicked"
              /\ c.sent = <<>>
              /\ c.result = None
              /\ c.creds = None /\ c.derived = None
    /\ (WalletOnly \/ FullyAuthenticated) =>
          /\ ~is_err(get_l1_parameters(signer, chain_id))
          /\ \A c \in InFlight : c.op \in L1Ops => c.pc # "panicked"

C4_Witness ==
    /\ Unauthenticated
    /\ \E c \in InFlight : c.op = "create_or_derive_api_key" /\ c.pc = "panicked"
    /\ \E c \in InFlight : c.op = "create_api_key" /\ c.pc = "panicked"

(* C5: create_or_derive_api_key returns exactly what derive_api_key        *)
(* returned whenever create_api_key returned an error, and exactly what    *)
(* create_api_key returned when that is a success; every request of the    *)
(* call carries the nonce of the call.                                     *)
C5_CreateOrDerive ==
    \A c \in InFlight :
        c.op = "create_or_derive_api_key" =>
            /\ \A i \in 1..Len(c.sent) :
                  c.sent[i].headers.val.nonce = NonceValue(c.nonce)
            /\ c.pc = "done" =>
                  /\ c.creds # None
                  /\ is_err(c.creds.val) => c.derived # None /\ c.result = c.derived
                  /\ ~is_err(c.creds.val) => c.derived = None /\ c.result = c.creds

C5_Witness ==
    \E c \in InFlight :
        /\ c.op = "create_or_derive_api_key"
        /\ c.pc = "done"
        /\ c.nonce = Some(5)
        /\ c.creds = Some(Err("send"))
        /\ c.result = Some(Err("body"))

(* C6: no step removes the signer, the chain id or the credential, so the  *)
(* authentication state never moves backwards.                             *)
C6_Step ==
    /\ signer # None => signer' # None
    /\ chain_id # None => chain_id' # None
    /\ api_creds # None => api_creds' # None
    /\ FullyAuthenticated => FullyAuthenticated'
    /\ WalletOnly => (WalletOnly' \/ FullyAuthenticated')

C6_NoLogout == [][C6_Step]_vars

C6_Witness ==
    /\ FullyAuthenticated
    /\ last.op = "set_api_creds"
    /\ \E c \in InFlight :
          /\ c.op \in L2Ops
          /\ c.pc = "done"
          /\ Len(c.sent) = 1
          /\ c.sent[1].headers.val.api_key # api_creds.val.api_key

(* C7: host, signer and chain_id are never written; api_creds is written   *)
(* only by set_api_creds, with its argument, and no step of a request      *)
(* operation (start, response, return) writes any field of the client.     *)
C7_Step ==
    /\ host' = host
    /\ signer' = signer
    /\ chain_id' = chain_id
    /\ api_creds' # api_creds =>
          /\ last'.op = "set_api_creds"
          /\ api_creds' = last'.args.creds
          /\ calls' = calls
    /\ calls' # calls => api_creds' = api_creds

C7_Frame == [][C7_Step]_vars

C7_Witness ==
    /\ api_creds = None
    /\ BagCardinality(calls) = 2
    /\ \E c \in InFlight : c.op = "create_api_key" /\ c.result = Some(Ok(CredSrv))
    /\ \E c \in InFlight : c.op = "derive_api_key" /\ c.pc = "await"

(* C8: every request operation sends at most one request, except          *)
(* create_or_derive_api_key, which sends at most two: the create request  *)
(* first, and the derive request only once create_api_key has returned an *)
(* error.  What the single request of create_api_key or derive_api_key    *)
(* yields is what the call returns.                                       *)
C8_NoRetry ==
    \A c \in InFlight :
        /\ c.op # "create_or_derive_api_key" => Len(c.sent) <= 1
        /\ c.op = "create_or_derive_api_key" =>
              /\ Len(c.sent) <= 2
              /\ \A i \in 1..Len(c.sent) :
                    /\ IsCreateRequest(c.sent[i]) \/ IsDeriveRequest(c.sent[i])
                    /\ IsCreateRequest(c.sent[i]) => i = 1
                    /\ IsDeriveRequest(c.sent[i]) =>
                          /\ i = Len(c.sent)
                          /\ c.creds # None
                          /\ is_err(c.creds.val)
        /\ c.pc = "await" => Len(c.sent) >= 1
        /\ (c.pc = "done" /\ c.op = "create_api_key") => c.result = c.creds
        /\ (c.pc = "done" /\ c.op = "derive_api_key") => c.result = c.derived

C8_Witness ==
    \E c \in InFlight :
        /\ c.op = "create_or_derive_api_key"
        /\ c.pc = "done"
        /\ Len(c.sent) = 2
        /\ IsCreateRequest(c.sent[1])
        /\ IsDeriveRequest(c.sent[2])

(* C9: whether an L2 operation passes its parameter check depends on the   *)
(* credential alone: the client reaches the same outcome as a client with  *)
(* the same credential and a signer.                                       *)
C9_L2IgnoresSigner ==
    alive => \A k \in ValidKeys :
        is_err(get_l2_parameters(signer, api_creds))
            <=> is_err(get_l2_parameters(Some(k), api_creds))

(* C10: get_address is None exactly when no signer is set and otherwise    *)
(* the signer's address; the three contract addresses are None exactly     *)
(* when chain_id is unset or the registry has no entry for it, and agree   *)
(* on presence.                                                            *)
C10_Views ==
    alive =>
        /\ get_address(signer) = None <=> signer = None
        /\ signer # None => get_address(signer) = Some(address(signer.val))
        /\ \A v \in {get_collateral_address(chain_id), get_conditional_address(chain_id),
                     get_exchange_address(chain_id)} :
              v = None <=> (chain_id = None \/ get_contract_config(chain_id.val) = None)

C10_Witness ==
    /\ alive
    /\ get_address(signer) # None
    /\ chain_id = Some(1)
    /\ get_exchange_address(chain_id) = None

====
